---- MODULE Spec2Model ----
(***************************************************************************)
(* Model of the data layer of mental_omega_arsenal_layout2.py: the catalog *)
(* loader (DataManager._load_data, _load_units_from_directory,             *)
(* _load_category_units), the search index (_build_search_index,           *)
(* search_units) and the lookup facade (get_units_for_path).               *)
(*                                                                         *)
(* Python str values are sequences of code points, so that str.lower, the  *)
(* `in` substring test, str.replace, str.split and the ordering used by    *)
(* sorted() are computed as Python computes them.                          *)
(***************************************************************************)
EXTENDS Integers, Sequences, FiniteSets, TLC

\* ------------------------------------------------------------------------
\* Bounds of the model
\* ------------------------------------------------------------------------
\* largest number of unit files present in the data directory
MaxFiles == 3

\* ------------------------------------------------------------------------
\* String constants (code points)
\* ------------------------------------------------------------------------
AlliedNations == <<65, 108, 108, 105, 101, 100, 32, 78, 97, 116, 105, 111, 110, 115>>   \* "Allied Nations"
UnitedStates == <<85, 110, 105, 116, 101, 100, 32, 83, 116, 97, 116, 101, 115>>   \* "United States"
EuropeanAlliance == <<69, 117, 114, 111, 112, 101, 97, 110, 32, 65, 108, 108, 105, 97, 110, 99, 101>>   \* "European Alliance"
PacificFront == <<80, 97, 99, 105, 102, 105, 99, 32, 70, 114, 111, 110, 116>>   \* "Pacific Front"
SovietUnion == <<83, 111, 118, 105, 101, 116, 32, 85, 110, 105, 111, 110>>   \* "Soviet Union"
Russia == <<82, 117, 115, 115, 105, 97>>   \* "Russia"
LatinConfederation == <<76, 97, 116, 105, 110, 32, 67, 111, 110, 102, 101, 100, 101, 114, 97, 116, 105, 111, 110>>   \* "Latin Confederation"
China == <<67, 104, 105, 110, 97>>   \* "China"
EpsilonArmy == <<69, 112, 115, 105, 108, 111, 110, 32, 65, 114, 109, 121>>   \* "Epsilon Army"
PsiCorps == <<80, 115, 105, 67, 111, 114, 112, 115>>   \* "PsiCorps"
ScorpionCell == <<83, 99, 111, 114, 112, 105, 111, 110, 32, 67, 101, 108, 108>>   \* "Scorpion Cell"
EpsilonHeadquarters == <<69, 112, 115, 105, 108, 111, 110, 32, 72, 101, 97, 100, 113, 117, 97, 114, 116, 101, 114, 115>>   \* "Epsilon Headquarters"
FoehnRevolt == <<70, 111, 101, 104, 110, 32, 82, 101, 118, 111, 108, 116>>   \* "Foehn Revolt"
Haihead == <<72, 97, 105, 104, 101, 97, 100>>   \* "Haihead"
LastBastion == <<76, 97, 115, 116, 32, 66, 97, 115, 116, 105, 111, 110>>   \* "Last Bastion"
WingsOfCoronia == <<87, 105, 110, 103, 115, 32, 111, 102, 32, 67, 111, 114, 111, 110, 105, 97>>   \* "Wings of Coronia"
Structures == <<83, 116, 114, 117, 99, 116, 117, 114, 101, 115>>   \* "Structures"
Defenses == <<68, 101, 102, 101, 110, 115, 101, 115>>   \* "Defenses"
Infantry == <<73, 110, 102, 97, 110, 116, 114, 121>>   \* "Infantry"
Vehicles == <<86, 101, 104, 105, 99, 108, 101, 115>>   \* "Vehicles"
Aircraft == <<65, 105, 114, 99, 114, 97, 102, 116>>   \* "Aircraft"
SupportPowers == <<83, 117, 112, 112, 111, 114, 116, 32, 112, 111, 119, 101, 114, 115>>   \* "Support powers"
temp_subfaction == <<95, 98, 97, 115, 101, 95, 102, 97, 99, 116, 105, 111, 110, 95>>   \* "_base_faction_"
SubfactionSegment == <<115, 117, 98, 102, 97, 99, 116, 105, 111, 110>>   \* "subfaction"
Conscript == <<67, 111, 110, 115, 99, 114, 105, 112, 116>>   \* "Conscript"
TeslaTrooper == <<84, 101, 115, 108, 97, 32, 84, 114, 111, 111, 112, 101, 114>>   \* "Tesla Trooper"
boris == <<98, 111, 114, 105, 115>>   \* "boris"
Stem_a == <<97>>   \* "a"
Stem_b == <<98>>   \* "b"
Stem_c == <<99>>   \* "c"
EmptyStr == <<>>   \* ""
Support_powers == <<83, 117, 112, 112, 111, 114, 116, 95, 112, 111, 119, 101, 114, 115>>   \* "Support_powers"
UnknownName == <<71, 76, 65>>   \* "GLA", a key of no mapping
Q_union == <<85, 78, 73, 79, 78>>   \* "UNION"
Q_base == <<98, 97, 115, 101>>   \* "base"
Q_B == <<66>>   \* "B"
Q_zz == <<122, 122>>   \* "zz"

Soviet_Union == <<83, 111, 118, 105, 101, 116, 95, 85, 110, 105, 111, 110>>   \* "Soviet_Union"
SovietUnionNoSpace == <<83, 111, 118, 105, 101, 116, 85, 110, 105, 111, 110>>   \* "SovietUnion"
Latin_Confederation == <<76, 97, 116, 105, 110, 95, 67, 111, 110, 102, 101, 100, 101, 114, 97, 116, 105, 111, 110>>   \* "Latin_Confederation"
LatinConfederationNoSpace == <<76, 97, 116, 105, 110, 67, 111, 110, 102, 101, 100, 101, 114, 97, 116, 105, 111, 110>>   \* "LatinConfederation"
Latin == <<76, 97, 116, 105, 110>>   \* "Latin"
FoehnRevoltNoSpace == <<70, 111, 101, 104, 110, 82, 101, 118, 111, 108, 116>>   \* "FoehnRevolt"

\* Python's None, a value that is no str
None == <<-1>>

Space == 32
Underscore == 95

\* ------------------------------------------------------------------------
\* Configuration of the program
\* ------------------------------------------------------------------------
\* FACTION_HIERARCHY, in dict order
FactionOrder == <<AlliedNations, SovietUnion, EpsilonArmy, FoehnRevolt>>

SubfactionOrder(faction) ==
    CASE faction = AlliedNations -> <<UnitedStates, EuropeanAlliance, PacificFront>>
      [] faction = SovietUnion -> <<Russia, LatinConfederation, China>>
      [] faction = EpsilonArmy -> <<PsiCorps, ScorpionCell, EpsilonHeadquarters>>
      [] faction = FoehnRevolt -> <<Haihead, LastBastion, WingsOfCoronia>>

UNIT_CATEGORIES == <<Structures, Defenses, Infantry, Vehicles, Aircraft, SupportPowers>>

Range(s) == {s[i] : i \in 1..Len(s)}

Factions == Range(FactionOrder)
Subfactions(faction) == Range(SubfactionOrder(faction))
Categories == Range(UNIT_CATEGORIES)

\* ------------------------------------------------------------------------
\* Python str operations
\* ------------------------------------------------------------------------
\* str.lower() of one (ASCII) character
LowerChar(c) == IF c >= 65 /\ c <= 90 THEN c + 32 ELSE c

\* str.lower()
Lower(s) == [i \in 1..Len(s) |-> LowerChar(s[i])]

\* `q in s` for two str
Contains(s, q) == \E i \in 0..(Len(s) - Len(q)) : SubSeq(s, i + 1, i + Len(q)) = q

\* a < b for two str (lexicographic by code point)
StrLess(a, b) ==
    \E i \in 1..Len(b) :
        /\ i <= Len(a) + 1
        /\ \A j \in 1..(i - 1) : a[j] = b[j]
        /\ (i = Len(a) + 1 \/ a[i] < b[i])

\* s.replace(c, with) for a one-character c and a with of at most one character
ReplaceChar(s, c, with) ==
    IF with = <<>>
    THEN SelectSeq(s, LAMBDA x : x # c)
    ELSE [i \in 1..Len(s) |-> IF s[i] = c THEN with[1] ELSE s[i]]

RECURSIVE LStrip(_)
LStrip(s) == IF s # <<>> /\ Head(s) = Space THEN LStrip(Tail(s)) ELSE s

RECURSIVE TakeToken(_)
TakeToken(s) == IF s = <<>> \/ Head(s) = Space THEN <<>> ELSE <<Head(s)>> \o TakeToken(Tail(s))

\* s.split()[0]
FirstToken(s) == TakeToken(LStrip(s))

\* ------------------------------------------------------------------------
\* The file system under "sterilized data box"
\* ------------------------------------------------------------------------
\* A directory is the sequence of its path segments below the data directory.
\* A file is [id, dir, stem, json]: json is "object" (a JSON object; has_name
\* says whether it has the key unit_name, unit_name is its value), "array" (valid
\* JSON that is no object) or "invalid" (no JSON).
JsonObject(name) == [kind |-> "object", has_name |-> TRUE, unit_name |-> name]
JsonNoName == [kind |-> "object", has_name |-> FALSE, unit_name |-> EmptyStr]
JsonInvalid == [kind |-> "invalid", has_name |-> FALSE, unit_name |-> EmptyStr]
JsonArray == [kind |-> "array", has_name |-> FALSE, unit_name |-> EmptyStr]

File(id, dir, stem, json) == [id |-> id, dir |-> dir, stem |-> stem, json |-> json]

RussiaDir == <<SovietUnion, SubfactionSegment, Russia>>

\* the unit files a data directory of the model is drawn from
FileUniverse ==
    { File(1, <<SovietUnion, Infantry>>, Stem_a, JsonObject(Conscript)),
      File(2, <<SovietUnion, Infantry>>, Stem_b, JsonObject(Conscript)),
      File(3, <<SovietUnion, Infantry>>, boris, JsonNoName),
      File(4, RussiaDir \o <<Infantry>>, TeslaTrooper, JsonNoName),
      File(5, RussiaDir \o <<Infantry>>, Stem_a, JsonObject(Conscript)),
      File(6, <<SovietUnion, Vehicles>>, Stem_c, JsonObject(boris)),
      File(7, <<SovietUnion, Infantry>>, Stem_c, JsonInvalid),
      File(8, <<AlliedNations, Infantry>>, Stem_a, JsonObject(Conscript)) }

\* directories that may exist without holding any unit file
EmptyDirChoices ==
    { {}, {<<SovietUnion>>}, {<<SovietUnion>>, <<SovietUnion, SubfactionSegment>>, RussiaDir} }

Prefixes(dir) == {SubSeq(dir, 1, n) : n \in 1..Len(dir)}

DirsOf(files, empty) == UNION ({Prefixes(f.dir) : f \in files} \cup {empty})

\* ------------------------------------------------------------------------
\* Settings values. A Python/JSON value is a tagged record; a number is kept
\* in hundredths, so that 0.9 is Num(90) and the integer 10 is IntNum(10).
\* ------------------------------------------------------------------------
Num(n) == [t |-> "num", num |-> n]
IntNum(n) == Num(n * 100)
Str(s) == [t |-> "str", str |-> s]
Bool(b) == [t |-> "bool", bool |-> b]
Null == [t |-> "null"]
List(seq) == [t |-> "list", list |-> seq]
Obj(f) == [t |-> "obj", obj |-> f]

DEFAULT_THEME ==
    [bg |-> Str("#1e1e1e"), fg |-> Str("#ffffff"), select_bg |-> Str("#404040"),
     select_fg |-> Str("#ffffff"), button_bg |-> Str("#2d2d2d"),
     button_fg |-> Str("#ffffff"), button_active_bg |-> Str("#505050"),
     title_bg |-> Str("#2d2d30"), title_fg |-> Str("#ffffff"),
     border |-> Str("#3c3c3c"), accent |-> Str("#007acc"), hover |-> Str("#505050")]

\* the custom settings ThemeManager.__init__ starts from
DefaultCustomSettings ==
    [opacity |-> Num(90), font_family |-> Str("Segoe UI"), font_size |-> IntNum(10),
     font_weight |-> Str("normal"), icon_scale |-> Num(100), ui_scale |-> Num(100),
     bold_text |-> Bool(FALSE)]

\* DEFAULT_WINDOW_SIZE as the module defines it
InitialWindowSize == <<1000, 700>>

\* mental_omega_settings.json: absent, not valid JSON, or a JSON document
NoFile == [kind |-> "absent"]
InvalidFile == [kind |-> "invalid"]
JsonFile(doc) == [kind |-> "json", doc |-> doc]

\* the attribute _expanded_size is not set
NoSize == <<>>

\* no root.geometry() request made yet
NoGeometry == [by |-> "none", size |-> <<0, 0>>]

VARIABLES
    dataDirExists,      \* Path("sterilized data box").exists()
    fs,                 \* the set of unit files
    dirs,               \* the set of existing directories
    pc,                 \* position in DataManager.__init__, "ready" once constructed
    fi,                 \* index of the faction the loader is at
    si,                 \* index of the subfaction the loader is at
    faction_dir,        \* the resolved directory of the current faction
    base_faction_units, \* category -> list of base units of the current faction
    units,              \* self.units: insertion-ordered list of [key, unit]
    faction_units,      \* self.faction_units: faction -> subfaction -> category -> list
    search_index,       \* self.search_index
    ret,                \* the last call of the public interface and what it returned
    settings_file,      \* the content of mental_omega_settings.json
    current_theme,      \* theme_manager.current_theme
    custom_settings,    \* theme_manager.custom_settings
    DEFAULT_WINDOW_SIZE,\* the module global of that name
    geometry,           \* the size last requested with root.geometry()
    view,               \* what the main content area shows
    current_faction,    \* self.current_faction
    comparison_units,   \* self.comparison_units
    is_collapsed,       \* title_bar.is_collapsed
    expanded_size,      \* self._expanded_size
    shown_faction,      \* the faction of the faction units view or of the unit of the
                        \* details view on display, None in the other views
    highlighted,        \* the faction whose toolbar button has the select colour
    notifications,      \* the notification labels on the window
    timers              \* the callbacks root.after() holds, in the order they are due

uivars == <<settings_file, current_theme, custom_settings, DEFAULT_WINDOW_SIZE,
            geometry, view, current_faction, comparison_units, is_collapsed,
            expanded_size, shown_faction, highlighted, notifications, timers>>

vars == <<dataDirExists, fs, dirs, pc, fi, si, faction_dir, base_faction_units,
          units, faction_units, search_index, ret, uivars>>

fsvars == <<dataDirExists, fs, dirs>>

EmptyDict == [k \in {} |-> {}]
NoBase == [c \in Categories |-> <<>>]
NoCall == [op |-> "none"]

\* the state after construction of the DataManager object, before _load_data(),
\* over a data directory drawn from the unit files of universe and the empty
\* directories of one of emptyChoices
InitOver(universe, emptyChoices) ==
    /\ dataDirExists \in BOOLEAN
    /\ fs \in {F \in SUBSET universe : Cardinality(F) <= MaxFiles}
    /\ \E empty \in emptyChoices : dirs = DirsOf(fs, empty)
    /\ (~dataDirExists) => (fs = {} /\ dirs = {})
    /\ pc = "start"
    /\ fi = 1
    /\ si = 1
    /\ faction_dir = <<>>
    /\ base_faction_units = NoBase
    /\ units = <<>>
    /\ faction_units = EmptyDict
    /\ search_index = <<>>
    /\ ret = NoCall
    /\ settings_file = NoFile
    /\ current_theme = DEFAULT_THEME
    /\ custom_settings = DefaultCustomSettings
    /\ DEFAULT_WINDOW_SIZE = InitialWindowSize
    /\ geometry = NoGeometry
    /\ view = "none"
    /\ current_faction = None
    /\ comparison_units = <<>>
    /\ is_collapsed = FALSE
    /\ expanded_size = NoSize
    /\ shown_faction = None
    /\ highlighted = None
    /\ notifications = {}
    /\ timers = <<>>

Init == InitOver(FileUniverse, EmptyDirChoices)

\* ------------------------------------------------------------------------
\* Python list and dict operations
\* ------------------------------------------------------------------------
\* d[key] = value on an insertion-ordered dict: a key already present keeps its
\* position and takes the new value
DictSet(d, key, value) ==
    IF \E i \in 1..Len(d) : d[i].key = key
    THEN [i \in 1..Len(d) |-> IF d[i].key = key THEN [key |-> key, unit |-> value] ELSE d[i]]
    ELSE Append(d, [key |-> key, unit |-> value])

\* place p = [k, v] behind every element of the sorted list acc whose key is <= p.k
InsertSorted(acc, p) ==
    LET n == Cardinality({i \in 1..Len(acc) : ~StrLess(p.k, acc[i].k)})
    IN  SubSeq(acc, 1, n) \o <<p>> \o SubSeq(acc, n + 1, Len(acc))

RECURSIVE SortPairs(_)
\* sorted() of a list of [k, v] by k: stable
SortPairs(ps) ==
    IF ps = <<>> THEN <<>>
    ELSE InsertSorted(SortPairs(SubSeq(ps, 1, Len(ps) - 1)), ps[Len(ps)])

Values(ps) == [i \in 1..Len(ps) |-> ps[i].v]

\* all enumeration orders of a finite set
Orders(S) == {o \in [1..Cardinality(S) -> S] : \A i, j \in 1..Cardinality(S) : o[i] = o[j] => i = j}

RECURSIVE SelectSeq2(_, _)
\* the elements of the list o that are in the set S, in the order of o
SelectSeq2(o, S) ==
    IF o = <<>> THEN <<>>
    ELSE (IF Head(o) \in S THEN <<Head(o)>> ELSE <<>>) \o SelectSeq2(Tail(o), S)

\* ------------------------------------------------------------------------
\* DataManager: loading
\* ------------------------------------------------------------------------
UnitData(name, faction, subfaction, category, file) ==
    [name |-> name, faction |-> faction, subfaction |-> subfaction,
     category |-> category, file |-> file]

\* f"{faction}_{subfaction}_{category}_{unit.name}"
UnitKey(faction, subfaction, category, name) ==
    faction \o <<Underscore>> \o subfaction \o <<Underscore>> \o category \o <<Underscore>> \o name

\* category_dir.glob("*.json"): the files of the directory, in the order the
\* file system enumerates them
Glob(dir, order) == SelectSeq2(order, {f \in fs : f.dir = dir})

\* the body of the loop over the files of a category directory; st is
\* [units, fu], the values of self.units and self.faction_units
LoadFile(st, f, faction, subfaction, category) ==
    IF f.json.kind # "object"
    THEN st
    ELSE LET name == IF f.json.has_name THEN f.json.unit_name ELSE f.stem
             unit == UnitData(name, faction, subfaction, category, f.id)
             stored == DictSet(st.units, UnitKey(faction, subfaction, category, name), unit)
         IN  IF /\ faction \in DOMAIN st.fu
                /\ subfaction \in DOMAIN st.fu[faction]
                /\ category \in DOMAIN st.fu[faction][subfaction]
             THEN [units |-> stored,
                   fu |-> [st.fu EXCEPT ![faction][subfaction][category] = Append(@, unit)]]
             ELSE [units |-> stored, fu |-> st.fu]

RECURSIVE LoadFiles_StopAtBad(_, _, _, _, _)
\* LoadFiles leaving the folder at the first file that is no JSON object
LoadFiles_StopAtBad(st, files, faction, subfaction, category) ==
    IF files = <<>> \/ Head(files).json.kind # "object" THEN st
    ELSE LoadFiles_StopAtBad(LoadFile(st, Head(files), faction, subfaction, category),
                             Tail(files), faction, subfaction, category)

RECURSIVE LoadFiles(_, _, _, _, _)
LoadFiles(st, files, faction, subfaction, category) ==
    IF files = <<>> THEN st
    ELSE LoadFiles(LoadFile(st, Head(files), faction, subfaction, category),
                   Tail(files), faction, subfaction, category)

\* the directory a category is read from
CategoryDir(directory, category) == directory \o <<ReplaceChar(category, Space, <<Underscore>>)>>

RECURSIVE LoadCategories(_, _, _, _, _, _)
LoadCategories(st, cats, directory, faction, subfaction, order) ==
    IF cats = <<>> THEN st
    ELSE LET category_dir == CategoryDir(directory, Head(cats))
             next == IF category_dir \notin dirs
                     THEN st
                     ELSE LoadFiles(st, Glob(category_dir, order), faction, subfaction, Head(cats))
         IN  LoadCategories(next, Tail(cats), directory, faction, subfaction, order)

\* _load_category_units(directory, faction, subfaction)
LoadCategoryUnits(st, directory, faction, subfaction, order) ==
    LoadCategories(st, UNIT_CATEGORIES, directory, faction, subfaction, order)

\* no directory found (faction_dir = None)
NoDir == <<>>

RECURSIVE FirstExisting(_, _)
\* the first of the candidate paths that exists, NoDir when none does
FirstExisting(parent, variants) ==
    IF variants = <<>> THEN NoDir
    ELSE IF (parent \o <<Head(variants)>>) \in dirs
         THEN parent \o <<Head(variants)>>
         ELSE FirstExisting(parent, Tail(variants))

\* FactionVariants trying the underscore spelling before the exact name
FactionVariants_UnderscoreFirst(faction_name) ==
    << ReplaceChar(faction_name, Space, <<Underscore>>),
       faction_name,
       ReplaceChar(faction_name, Space, <<>>) >>

FactionVariants(faction_name) ==
    << faction_name,
       ReplaceChar(faction_name, Space, <<Underscore>>),
       ReplaceChar(faction_name, Space, <<>>) >>

SubfactionVariants(subfaction_name) ==
    << subfaction_name,
       ReplaceChar(subfaction_name, Space, <<Underscore>>),
       ReplaceChar(subfaction_name, Space, <<>>),
       IF Space \in Range(subfaction_name) THEN FirstToken(subfaction_name) ELSE subfaction_name >>

\* list.extend
Extend(list, more) == list \o more

RECURSIVE UniqueByName(_, _)
\* the loop that keeps the first unit of every name
UniqueByName(list, seen) ==
    IF list = <<>> THEN <<>>
    ELSE IF Head(list).name \in seen
         THEN UniqueByName(Tail(list), seen)
         ELSE <<Head(list)>> \o UniqueByName(Tail(list), seen \cup {Head(list).name})

\* sorted(unique_units, key=lambda u: u.name)
SortedByName(list) == Values(SortPairs([i \in 1..Len(list) |-> [k |-> list[i].name, v |-> list[i]]]))

\* "Remove duplicates and sort" of one bucket
DedupAndSort(list) == SortedByName(UniqueByName(list, {}))

\* MergeFound without the inherited base units
MergeFound_NoBase(loaded, base) == DedupAndSort(loaded)

\* MergeFound with the base units placed before the subfaction's own
MergeFound_BaseFirst(loaded, base) == DedupAndSort(Extend(base, loaded))

\* the bucket of a subfaction whose directory was found, from what was loaded
\* from that directory and the base units of the category
MergeFound(loaded, base) == DedupAndSort(Extend(loaded, base))

\* MergeMissing without the inherited base units
MergeMissing_NoInherit(bucket, base) == bucket

\* the bucket of a subfaction whose directory was not found
MergeMissing(bucket, base) == Extend(bucket, base)

\* ------------------------------------------------------------------------
\* DataManager: search index and lookup
\* ------------------------------------------------------------------------
SearchItem(unit) ==
    [name |-> unit.name, faction |-> unit.faction, subfaction |-> unit.subfaction,
     category |-> unit.category, unit_data |-> unit]

\* self.search_index.sort(key=lambda x: x.name.lower())
SortedByLowerName(list) ==
    Values(SortPairs([i \in 1..Len(list) |-> [k |-> Lower(list[i].name), v |-> list[i]]]))

\* BuildIndex sorting by the name as it is written
BuildIndex_CaseSensitive(d) == SortedByName([i \in 1..Len(d) |-> SearchItem(d[i].unit)])

\* _build_search_index(): the value of self.search_index
BuildIndex(d) == SortedByLowerName([i \in 1..Len(d) |-> SearchItem(d[i].unit)])

\* Matches without the test of the subfaction
Matches_NoSubfaction(item, query) ==
    \/ Contains(Lower(item.name), query)
    \/ Contains(Lower(item.faction), query)
    \/ Contains(Lower(item.category), query)

\* the condition under which search_units keeps an item; query is lower-cased
Matches(item, query) ==
    \/ Contains(Lower(item.name), query)
    \/ Contains(Lower(item.faction), query)
    \/ Contains(Lower(item.subfaction), query)
    \/ Contains(Lower(item.category), query)

RECURSIVE ScanIndex(_, _)
\* the loop of search_units over the index
ScanIndex(index, query) ==
    IF index = <<>> THEN <<>>
    ELSE (IF Matches(Head(index), query) THEN <<Head(index)>> ELSE <<>>)
         \o ScanIndex(Tail(index), query)

\* search_units without the early return on an empty query
search_units_NoGuard(query) == ScanIndex(search_index, Lower(query))

\* search_units(query)
search_units(query) ==
    IF query = EmptyStr \/ query = None
    THEN <<>>
    ELSE ScanIndex(search_index, Lower(query))

\* what a call returns: a list, or an exception
Returned(list) == [raised |-> FALSE, value |-> list]
Raised == [raised |-> TRUE, value |-> <<>>]

\* ConcatAll keeping the first list only
ConcatAll_FirstOnly(lists) == IF lists = <<>> THEN <<>> ELSE Head(lists)

RECURSIVE ConcatAll(_)
\* all_units.extend(...) over a list of lists
ConcatAll(lists) == IF lists = <<>> THEN <<>> ELSE Head(lists) \o ConcatAll(Tail(lists))

\* the keys of a mapping of faction_units in dict order: the declared names
\* in declaration order (a found faction's temporary key is deleted again)
KeysInOrder(d, declared) == SelectSeq2(declared, DOMAIN d)

\* the values of the category buckets of one subfaction, concatenated
AllOfSubfaction(sub) ==
    LET cats == KeysInOrder(sub, UNIT_CATEGORIES)
    IN  ConcatAll([i \in 1..Len(cats) |-> sub[cats[i]]])

\* the subscript on the last line of get_units_for_path: KeyError on a missing key
Bucket(faction, subfaction, category) ==
    IF /\ faction \in DOMAIN faction_units
       /\ subfaction \in DOMAIN faction_units[faction]
       /\ category \in DOMAIN faction_units[faction][subfaction]
    THEN Returned(faction_units[faction][subfaction][category])
    ELSE Raised

\* get_units_for_path without the test of the category key
get_units_for_path_NoCategoryCheck(faction, subfaction, category) ==
    IF faction \notin DOMAIN faction_units THEN Returned(<<>>)
    ELSE IF subfaction = None
    THEN LET subs == KeysInOrder(faction_units[faction], SubfactionOrder(faction))
         IN  Returned(ConcatAll([i \in 1..Len(subs) |-> AllOfSubfaction(faction_units[faction][subs[i]])]))
    ELSE IF subfaction \notin DOMAIN faction_units[faction] THEN Returned(<<>>)
    ELSE IF category = None
    THEN Returned(AllOfSubfaction(faction_units[faction][subfaction]))
    ELSE Bucket(faction, subfaction, category)

\* get_units_for_path subscripting faction_units without the test of the faction key
get_units_for_path_NoFactionCheck(faction, subfaction, category) ==
    IF faction \notin DOMAIN faction_units THEN Raised
    ELSE IF subfaction = None
    THEN LET subs == KeysInOrder(faction_units[faction], SubfactionOrder(faction))
         IN  Returned(ConcatAll([i \in 1..Len(subs) |-> AllOfSubfaction(faction_units[faction][subs[i]])]))
    ELSE IF subfaction \notin DOMAIN faction_units[faction] THEN Returned(<<>>)
    ELSE IF category = None
    THEN Returned(AllOfSubfaction(faction_units[faction][subfaction]))
    ELSE IF category \notin DOMAIN faction_units[faction][subfaction] THEN Returned(<<>>)
    ELSE Bucket(faction, subfaction, category)

\* the list without the elements equal to an earlier one
RECURSIVE WithoutRepeats(_)
WithoutRepeats(list) ==
    IF list = <<>> THEN <<>>
    ELSE LET front == WithoutRepeats(SubSeq(list, 1, Len(list) - 1))
             last == list[Len(list)]
         IN  IF last \in Range(front) THEN front ELSE Append(front, last)

\* get_units_for_path listing every record of a faction once
get_units_for_path_NoRepeats(faction, subfaction, category) ==
    IF faction \notin DOMAIN faction_units THEN Returned(<<>>)
    ELSE IF subfaction = None
    THEN LET subs == KeysInOrder(faction_units[faction], SubfactionOrder(faction))
         IN  Returned(WithoutRepeats(ConcatAll(
                [i \in 1..Len(subs) |-> AllOfSubfaction(faction_units[faction][subs[i]])])))
    ELSE IF subfaction \notin DOMAIN faction_units[faction] THEN Returned(<<>>)
    ELSE IF category = None
    THEN Returned(AllOfSubfaction(faction_units[faction][subfaction]))
    ELSE IF category \notin DOMAIN faction_units[faction][subfaction] THEN Returned(<<>>)
    ELSE Bucket(faction, subfaction, category)

\* get_units_for_path(faction, subfaction, category)
get_units_for_path(faction, subfaction, category) ==
    IF faction \notin DOMAIN faction_units THEN Returned(<<>>)
    ELSE IF subfaction = None
    THEN LET subs == KeysInOrder(faction_units[faction], SubfactionOrder(faction))
         IN  Returned(ConcatAll([i \in 1..Len(subs) |-> AllOfSubfaction(faction_units[faction][subs[i]])]))
    ELSE IF subfaction \notin DOMAIN faction_units[faction] THEN Returned(<<>>)
    ELSE IF category = None
    THEN Returned(AllOfSubfaction(faction_units[faction][subfaction]))
    ELSE IF category \notin DOMAIN faction_units[faction][subfaction] THEN Returned(<<>>)
    ELSE Bucket(faction, subfaction, category)

\* ------------------------------------------------------------------------
\* Actions
\* ------------------------------------------------------------------------
\* "Initialize faction structure"
InitialStructure ==
    [f \in Factions |-> [s \in Subfactions(f) |-> [c \in Categories |-> <<>>]]]

\* _load_data(): the data directory is missing, the catalog stays empty
LoadDataMissing ==
    /\ pc = "start"
    /\ ~dataDirExists
    /\ pc' = "ready"
    /\ UNCHANGED <<uivars, fsvars, fi, si, faction_dir, base_faction_units, units,
                   faction_units, search_index, ret>>

\* _load_data(): the structure is initialised and the loader starts
LoadData ==
    /\ pc = "start"
    /\ dataDirExists
    /\ faction_units' = InitialStructure
    /\ pc' = "factions"
    /\ fi' = 1
    /\ UNCHANGED <<uivars, fsvars, si, faction_dir, base_faction_units, units, search_index, ret>>

\* the loop over the factions goes to its next iteration, or ends
NextFaction ==
    IF fi < Len(FactionOrder)
    THEN fi' = fi + 1 /\ pc' = "factions"
    ELSE fi' = fi /\ pc' = "index"

\* one iteration of the loop over the factions whose directory is not found
SkipFaction ==
    /\ pc = "factions"
    /\ FirstExisting(<<>>, FactionVariants(FactionOrder[fi])) = NoDir
    /\ NextFaction
    /\ UNCHANGED <<uivars, fsvars, si, faction_dir, base_faction_units, units,
                   faction_units, search_index, ret>>

\* the state after the base units of faction_name were loaded from dir
BaseLoaded(faction_name, dir, order) ==
    LET withTemp == [faction_units EXCEPT ![faction_name] =
                        [s \in DOMAIN @ \cup {temp_subfaction} |->
                            IF s = temp_subfaction THEN [c \in Categories |-> <<>>] ELSE @[s]]]
    IN  LoadCategoryUnits([units |-> units, fu |-> withTemp], dir, faction_name,
                          temp_subfaction, order)

\* the base units loaded without line 186
LoadBaseUnits_KeepsTemporary ==
    /\ pc = "factions"
    /\ LET faction_name == FactionOrder[fi]
           dir == FirstExisting(<<>>, FactionVariants(faction_name))
       IN  /\ dir # NoDir
           /\ \E order \in Orders({f \in fs : SubSeq(f.dir, 1, Len(dir)) = dir}) :
                LET st == BaseLoaded(faction_name, dir, order)
                IN  /\ base_faction_units' =
                            [c \in Categories |-> st.fu[faction_name][temp_subfaction][c]]
                    /\ faction_units' = st.fu
                    /\ units' = st.units
           /\ faction_dir' = dir
    /\ si' = 1
    /\ pc' = "subfactions"
    /\ UNCHANGED <<uivars, fsvars, fi, search_index, ret>>

\* one iteration of the loop over the factions, up to the loop over the
\* subfactions: the base units are loaded, copied and their temporary bucket deleted
LoadBaseUnits ==
    /\ pc = "factions"
    /\ LET faction_name == FactionOrder[fi]
           dir == FirstExisting(<<>>, FactionVariants(faction_name))
       IN  /\ dir # NoDir
           /\ \E order \in Orders({f \in fs : SubSeq(f.dir, 1, Len(dir)) = dir}) :
                LET st == BaseLoaded(faction_name, dir, order)
                IN  /\ base_faction_units' =
                            [c \in Categories |-> st.fu[faction_name][temp_subfaction][c]]
                    /\ faction_units' = [st.fu EXCEPT ![faction_name] =
                            [s \in DOMAIN @ \ {temp_subfaction} |-> @[s]]]
                    /\ units' = st.units
           /\ faction_dir' = dir
    /\ si' = 1
    /\ pc' = "subfactions"
    /\ UNCHANGED <<uivars, fsvars, fi, search_index, ret>>

\* the state after one iteration of the loop over the subfactions
SubfactionLoaded(faction_name, subfaction_name, order) ==
    LET subfaction_dir == FirstExisting(faction_dir \o <<SubfactionSegment>>,
                                        SubfactionVariants(subfaction_name))
        st == LoadCategoryUnits([units |-> units, fu |-> faction_units], subfaction_dir,
                                faction_name, subfaction_name, order)
    IN  IF subfaction_dir # NoDir
        THEN [units |-> st.units,
              fu |-> [st.fu EXCEPT ![faction_name][subfaction_name] =
                        [c \in Categories |-> MergeFound(@[c], base_faction_units[c])]]]
        ELSE [units |-> units,
              fu |-> [faction_units EXCEPT ![faction_name][subfaction_name] =
                        [c \in Categories |-> MergeMissing(@[c], base_faction_units[c])]]]

\* one iteration of the loop over the subfactions of the current faction
LoadSubfaction ==
    /\ pc = "subfactions"
    /\ LET faction_name == FactionOrder[fi]
           subfaction_name == SubfactionOrder(faction_name)[si]
       IN  /\ \E order \in Orders({f \in fs : SubSeq(f.dir, 1, Len(faction_dir)) = faction_dir}) :
                LET st == SubfactionLoaded(faction_name, subfaction_name, order)
                IN  /\ faction_units' = st.fu
                    /\ units' = st.units
           /\ IF si < Len(SubfactionOrder(faction_name))
              THEN si' = si + 1 /\ pc' = "subfactions" /\ fi' = fi
              ELSE si' = si /\ NextFaction
    /\ UNCHANGED <<uivars, fsvars, faction_dir, base_faction_units, search_index, ret>>

\* _build_search_index(), the last step of _load_data()
BuildSearchIndex ==
    /\ pc = "index"
    /\ search_index' = BuildIndex(units)
    /\ pc' = "ready"
    /\ UNCHANGED <<uivars, fsvars, fi, si, faction_dir, base_faction_units, units, faction_units, ret>>

\* the queries and the paths the public interface is called with
Queries == {EmptyStr, Conscript, Q_union, Q_base, Q_B, Q_zz}
PathFactions == {SovietUnion, UnknownName}
PathSubfactions == {None, Russia, China, temp_subfaction}
PathCategories == {None, Infantry, Support_powers}

\* a call of search_units(query)
SearchUnits ==
    /\ pc = "ready"
    /\ \E query \in Queries :
        ret' = [op |-> "search_units", query |-> query, value |-> search_units(query)]
    /\ UNCHANGED <<uivars, fsvars, pc, fi, si, faction_dir, base_faction_units, units,
                   faction_units, search_index>>

\* a call of get_units_for_path(faction, subfaction, category)
GetUnitsForPath ==
    /\ pc = "ready"
    /\ \E faction \in PathFactions, subfaction \in PathSubfactions, category \in PathCategories :
        ret' = [op |-> "get_units_for_path", faction |-> faction, subfaction |-> subfaction,
                category |-> category,
                result |-> get_units_for_path(faction, subfaction, category)]
    /\ UNCHANGED <<uivars, fsvars, pc, fi, si, faction_dir, base_faction_units, units,
                   faction_units, search_index>>

Next ==
    \/ LoadDataMissing
    \/ LoadData
    \/ SkipFaction
    \/ LoadBaseUnits
    \/ LoadSubfaction
    \/ BuildSearchIndex
    \/ SearchUnits
    \/ GetUnitsForPath

Spec == Init /\ [][Next]_vars

\* ------------------------------------------------------------------------
\* ThemeManager
\* ------------------------------------------------------------------------
\* dict.update(other) with a mapping
Merge(d, o) == [k \in DOMAIN d \cup DOMAIN o |-> IF k \in DOMAIN o THEN o[k] ELSE d[k]]

\* dict.update(seq) with a list: every element must be a [key, value] pair;
\* the pairs before the first element that is none are applied, then it raises
RECURSIVE UpdateFromPairs(_, _)
UpdateFromPairs(d, seq) ==
    IF seq = <<>> THEN [raised |-> FALSE, value |-> d]
    ELSE LET e == Head(seq)
         IN  IF e.t = "list" /\ Len(e.list) = 2 /\ e.list[1].t = "str"
             THEN UpdateFromPairs(Merge(d, [k \in {e.list[1].str} |-> e.list[2]]), Tail(seq))
             ELSE [raised |-> TRUE, value |-> d]

\* dict.update(x) for a value x decoded from JSON: a mapping is merged, a list is
\* read as pairs, an empty string is an empty iterable, anything else raises
DictUpdate(d, x) ==
    CASE x.t = "obj" -> [raised |-> FALSE, value |-> Merge(d, x.obj)]
      [] x.t = "list" -> UpdateFromPairs(d, x.list)
      [] x.t = "str" -> [raised |-> x.str # "", value |-> d]
      [] OTHER -> [raised |-> TRUE, value |-> d]

\* settings.get(key, {})
Section(settings, key) ==
    IF key \in DOMAIN settings.obj THEN settings.obj[key] ELSE Obj(EmptyDict)

\* load_settings reading the theme section only
load_settings_ThemeOnly(theme, custom, file) ==
    IF file.kind # "json" \/ file.doc.t # "obj" THEN [theme |-> theme, custom |-> custom]
    ELSE [theme |-> DictUpdate(theme, Section(file.doc, "theme")).value, custom |-> custom]

\* load_settings(): what current_theme and custom_settings are after it, every
\* exception being swallowed where it is raised
load_settings(theme, custom, file) ==
    IF file.kind # "json" THEN [theme |-> theme, custom |-> custom]
    ELSE IF file.doc.t # "obj" THEN [theme |-> theme, custom |-> custom]
    ELSE LET t == DictUpdate(theme, Section(file.doc, "theme"))
         IN  IF t.raised THEN [theme |-> t.value, custom |-> custom]
             ELSE [theme |-> t.value,
                   custom |-> DictUpdate(custom, Section(file.doc, "custom")).value]

\* ThemeManager(): the defaults, then load_settings()
ThemeManagerNew(file) == load_settings(DEFAULT_THEME, DefaultCustomSettings, file)

\* ThemeManager.save_settings(): the document json.dump writes
SettingsDocument(theme, custom) == JsonFile(Obj([theme |-> Obj(theme), custom |-> Obj(custom)]))

\* custom_settings.get("ui_scale", 1.0), in hundredths
UiScale(custom) == IF "ui_scale" \in DOMAIN custom THEN custom["ui_scale"].num ELSE 100

\* int(x * ui_scale); the scales of the model are multiples of one half, whose
\* products are exact in binary floating point
ScaleInt(x, s) == (x * s) \div 100

\* (int(DEFAULT_WINDOW_SIZE[0] * ui_scale), int(DEFAULT_WINDOW_SIZE[1] * ui_scale))
ScaledDefault(custom, dws) == <<ScaleInt(dws[1], UiScale(custom)), ScaleInt(dws[2], UiScale(custom))>>

Min2(a, b) == IF a < b THEN a ELSE b
Max2(a, b) == IF a > b THEN a ELSE b

\* the width without its upper limit
ComparisonWidth_NoCap(n) == Max2(1000, 400 + n * 300)

\* min(2000, max(1000, 400 + len(self.comparison_units) * 300))
ComparisonWidth(n) == Min2(2000, Max2(1000, 400 + n * 300))

\* the geometry after show_comparison(): nothing is requested for an empty list
ShowComparisonGeometry(list, dws, g) ==
    IF Len(list) = 0 THEN g
    ELSE [by |-> "show_comparison", size |-> <<ComparisonWidth(Len(list)), dws[2]>>]

\* the geometry after refresh_current_view() called from the settings view, where
\* no search entry exists: show_comparison() runs when no faction is selected
RefreshGeometry(faction, list, dws, g) ==
    IF faction # None THEN g ELSE ShowComparisonGeometry(list, dws, g)

colvars == <<is_collapsed, expanded_size>>

navvars == <<shown_faction, highlighted>>

notevars == <<notifications, timers>>

datavars == <<fsvars, pc, fi, si, faction_dir, base_faction_units, units, faction_units,
              search_index>>

\* the program is started: MentalOmegaArsenal.__init__ constructs the ThemeManager
Launch ==
    /\ pc = "off"
    /\ LET tm == ThemeManagerNew(settings_file)
       IN  /\ current_theme' = tm.theme
           /\ custom_settings' = tm.custom
    /\ pc' = "start"
    /\ ret' = [op |-> "ThemeManager"]
    /\ UNCHANGED <<fsvars, fi, si, faction_dir, base_faction_units, units, faction_units,
                   search_index, settings_file, DEFAULT_WINDOW_SIZE, geometry, view,
                   current_faction, comparison_units, colvars, navvars, notevars>>

\* the rest of MentalOmegaArsenal.__init__ once the DataManager is constructed:
\* setup_window() and show_factions()
AppStart ==
    /\ pc = "ready"
    /\ view = "none"
    /\ geometry' = [by |-> "setup_window",
                    size |-> ScaledDefault(custom_settings, DEFAULT_WINDOW_SIZE)]
    /\ view' = "factions"
    /\ current_faction' = None
    /\ comparison_units' = <<>>
    /\ shown_faction' = None
    /\ highlighted' = None
    /\ UNCHANGED <<datavars, notevars, colvars, ret, settings_file, current_theme, custom_settings,
                   DEFAULT_WINDOW_SIZE>>

\* show_factions(): the title bar button, Escape, or the comparison view's button
ShowFactions ==
    /\ view # "none"
    /\ view' = "factions"
    /\ current_faction' = None
    /\ shown_faction' = None
    /\ highlighted' = None
    /\ UNCHANGED <<datavars, notevars, colvars, ret, settings_file, current_theme, custom_settings,
                   DEFAULT_WINDOW_SIZE, geometry, comparison_units>>

\* show_settings()
ShowSettings ==
    /\ view # "none"
    /\ ~is_collapsed
    /\ view' = "settings"
    /\ shown_faction' = None
    /\ UNCHANGED <<datavars, notevars, highlighted, colvars, ret, settings_file, current_theme, custom_settings,
                   DEFAULT_WINDOW_SIZE, geometry, current_faction, comparison_units>>

\* what the widgets of the settings view can hold, in hundredths for the scales
OpacityValues == {30, 90}
UiScaleValues == {100, 150}
WidthValues == {1000, 1200}
HeightValues == {700}

\* apply_window_size(): the button of the settings view, the spinboxes holding a
\* width of widths and a height of heights
ApplyWindowSizeOver(widths, heights) ==
    /\ view = "settings"
    /\ ~is_collapsed
    /\ \E base_width \in widths, base_height \in heights :
        /\ geometry' = [by |-> "apply_window_size",
                        size |-> <<ScaleInt(base_width, UiScale(custom_settings)),
                                   ScaleInt(base_height, UiScale(custom_settings))>>]
        /\ DEFAULT_WINDOW_SIZE' = <<base_width, base_height>>
    /\ UNCHANGED <<datavars, notevars, navvars, colvars, ret, settings_file, current_theme, custom_settings, view,
                   current_faction, comparison_units>>

ApplyWindowSize == ApplyWindowSizeOver(WidthValues, HeightValues)

\* MentalOmegaArsenal.save_settings(): the widgets' values, drawn from the given
\* sets, are stored, the file is written, the current view is refreshed and the
\* faction view is shown
SaveSettingsOver(opacities, ui_scales, widths, heights) ==
    /\ view = "settings"
    /\ ~is_collapsed
    /\ \E opacity \in opacities, ui_scale \in ui_scales,
          window_width \in widths, window_height \in heights :
        LET custom == Merge(custom_settings,
                        [opacity |-> Num(opacity),
                         font_size |-> custom_settings["font_size"],
                         icon_scale |-> custom_settings["icon_scale"],
                         ui_scale |-> Num(ui_scale),
                         bold_text |-> custom_settings["bold_text"],
                         window_width |-> IntNum(window_width),
                         window_height |-> IntNum(window_height)])
        IN  /\ custom_settings' = custom
            /\ settings_file' = SettingsDocument(current_theme, custom)
            /\ ret' = [op |-> "save_settings", theme |-> current_theme, custom |-> custom]
    /\ geometry' = RefreshGeometry(current_faction, comparison_units, DEFAULT_WINDOW_SIZE, geometry)
    /\ view' = "factions"
    /\ current_faction' = None
    /\ shown_faction' = None
    /\ highlighted' = None
    /\ UNCHANGED <<datavars, notevars, colvars, current_theme, DEFAULT_WINDOW_SIZE, comparison_units>>

SaveSettings == SaveSettingsOver(OpacityValues, UiScaleValues, WidthValues, HeightValues)

\* reset_settings()
ResetSettings ==
    /\ view = "settings"
    /\ ~is_collapsed
    /\ LET custom == Merge(DefaultCustomSettings,
                        [window_width |-> IntNum(DEFAULT_WINDOW_SIZE[1]),
                         window_height |-> IntNum(DEFAULT_WINDOW_SIZE[2])])
       IN  /\ custom_settings' = custom
           /\ settings_file' = SettingsDocument(current_theme, custom)
           /\ ret' = [op |-> "reset_settings", theme |-> current_theme, custom |-> custom]
    /\ geometry' = RefreshGeometry(current_faction, comparison_units, DEFAULT_WINDOW_SIZE,
                                   [by |-> "reset_settings", size |-> DEFAULT_WINDOW_SIZE])
    /\ view' = "factions"
    /\ current_faction' = None
    /\ shown_faction' = None
    /\ highlighted' = None
    /\ UNCHANGED <<datavars, notevars, colvars, current_theme, DEFAULT_WINDOW_SIZE, comparison_units>>

\* on_close(): the settings are written and the process ends; the next start
\* finds the files as they are and the module global as the source defines it
OnClose ==
    /\ view # "none"
    /\ settings_file' = SettingsDocument(current_theme, custom_settings)
    /\ ret' = [op |-> "save_settings", theme |-> current_theme, custom |-> custom_settings]
    /\ pc' = "off"
    /\ fi' = 1
    /\ si' = 1
    /\ faction_dir' = <<>>
    /\ base_faction_units' = NoBase
    /\ units' = <<>>
    /\ faction_units' = EmptyDict
    /\ search_index' = <<>>
    /\ current_theme' = DEFAULT_THEME
    /\ custom_settings' = DefaultCustomSettings
    /\ DEFAULT_WINDOW_SIZE' = InitialWindowSize
    /\ geometry' = NoGeometry
    /\ view' = "none"
    /\ current_faction' = None
    /\ comparison_units' = <<>>
    /\ is_collapsed' = FALSE
    /\ expanded_size' = NoSize
    /\ shown_faction' = None
    /\ highlighted' = None
    /\ notifications' = {}
    /\ timers' = <<>>
    /\ UNCHANGED fsvars

\* ------------------------------------------------------------------------
\* What the claims speak about
\* ------------------------------------------------------------------------
Loaded == pc = "ready" /\ dataDirExists

\* the directory of a faction and of a subfaction in the data directory
FactionDirOf(F) == FirstExisting(<<>>, FactionVariants(F))
SubfactionDirOf(F, S) ==
    IF FactionDirOf(F) = NoDir THEN NoDir
    ELSE FirstExisting(FactionDirOf(F) \o <<SubfactionSegment>>, SubfactionVariants(S))

\* the records of the well-formed unit files of the category folder C of dir,
\* as records of faction F and subfaction S
RecordsOfFolder(dir, F, S, C) ==
    IF dir = NoDir THEN {}
    ELSE LET folder == CategoryDir(dir, C)
         IN  { UnitData(IF f.json.has_name THEN f.json.unit_name ELSE f.stem, F, S, C, f.id) :
                 f \in {g \in fs : g.dir = folder /\ g.json.kind = "object"} }

BaseRecords(F, C) == RecordsOfFolder(FactionDirOf(F), F, temp_subfaction, C)
OwnRecords(F, S, C) == RecordsOfFolder(SubfactionDirOf(F, S), F, S, C)

NamesOf(records) == {u.name : u \in records}
BucketOf(F, S, C) == faction_units[F][S][C]
NameList(list) == [i \in 1..Len(list) |-> list[i].name]

\* every record held in a bucket of the catalog
CatalogRecords ==
    UNION { UNION { UNION { Range(faction_units[F][S][C]) :
                              C \in DOMAIN faction_units[F][S] } :
                      S \in DOMAIN faction_units[F] } :
              F \in DOMAIN faction_units }

\* s <= t for two str
StrLeq(s, t) == ~StrLess(t, s)

\* r is a subsequence of the list l: its elements are elements of l at
\* strictly increasing positions
IsSubsequence(r, l) ==
    \E pos \in [1..Len(r) -> 1..Len(l)] :
        /\ \A i \in 1..Len(r) : l[pos[i]] = r[i]
        /\ \A i, j \in 1..Len(r) : i < j => pos[i] < pos[j]

\* q occurs in s at some offset
OccursIn(q, s) ==
    \E off \in 0..Len(s) : off + Len(q) <= Len(s) /\ \A j \in 1..Len(q) : s[off + j] = q[j]

\* ------------------------------------------------------------------------
\* C1
\* ------------------------------------------------------------------------
\* C1 as stated: after loading, for every faction F whose directory was found,
\* every declared subfaction S and every category C, the records returned by
\* get_units_for_path(F, S, C) include every base record of F's folder C.
C1_RecordSuperset ==
    Loaded =>
        \A F \in Factions : FactionDirOf(F) # NoDir =>
            \A S \in Subfactions(F), C \in Categories :
                BaseRecords(F, C) \subseteq Range(get_units_for_path(F, S, C).value)

\* C1 amended: inheritance holds by name. After loading, for every faction F whose
\* directory was found, every declared subfaction S and every category C,
\* get_units_for_path(F, S, C) returns, for every base record of F's folder C, a
\* record of that name, whether or not S's directory exists.
C1_NameSuperset ==
    Loaded =>
        \A F \in Factions : FactionDirOf(F) # NoDir =>
            \A S \in Subfactions(F), C \in Categories :
                /\ ~get_units_for_path(F, S, C).raised
                /\ NamesOf(BaseRecords(F, C))
                      \subseteq NamesOf(Range(get_units_for_path(F, S, C).value))

\* a loaded catalog where base units are inherited by a subfaction with a
\* directory and by one without
C1_Witness ==
    /\ Loaded
    /\ BaseRecords(SovietUnion, Infantry) # {}
    /\ SubfactionDirOf(SovietUnion, Russia) # NoDir
    /\ SubfactionDirOf(SovietUnion, China) = NoDir
    /\ OwnRecords(SovietUnion, Russia, Infantry) # {}

\* ------------------------------------------------------------------------
\* C2
\* ------------------------------------------------------------------------
\* C2: after loading, no bucket (faction, subfaction, category) holds two records
\* of the same name, for every declared subfaction, with or without a directory.
C2_UniqueNames ==
    Loaded =>
        \A F \in Factions : \A S \in Subfactions(F), C \in Categories :
            \A i, j \in 1..Len(BucketOf(F, S, C)) :
                BucketOf(F, S, C)[i].name = BucketOf(F, S, C)[j].name => i = j

\* ------------------------------------------------------------------------
\* C3
\* ------------------------------------------------------------------------
\* C3: after loading, every bucket (faction, subfaction, category) is sorted by
\* unit name, for every declared subfaction, with or without a directory.
C3_Sorted ==
    Loaded =>
        \A F \in Factions : \A S \in Subfactions(F), C \in Categories :
            \A i, j \in 1..Len(BucketOf(F, S, C)) :
                i < j => StrLeq(BucketOf(F, S, C)[i].name, BucketOf(F, S, C)[j].name)

\* ------------------------------------------------------------------------
\* C4
\* ------------------------------------------------------------------------
\* C4: after loading, the unit names of bucket (F, S, C) are the names of the
\* records of S's own folder C and of F's base folder C, and every record of the
\* bucket is one of those records. A data directory holding the base Infantry
\* unit Conscript and Russia's Infantry unit Tesla Trooper gives Russia's
\* Infantry bucket the names Conscript, Tesla Trooper in that order.
C4_BucketContents ==
    Loaded =>
        /\ \A F \in Factions : \A S \in Subfactions(F), C \in Categories :
            LET bucket == Range(BucketOf(F, S, C))
                folders == OwnRecords(F, S, C) \cup BaseRecords(F, C)
            IN  /\ NamesOf(bucket) = NamesOf(folders)
                /\ bucket \subseteq folders
        /\ ({f.id : f \in fs} = {1, 4} =>
                NameList(BucketOf(SovietUnion, Russia, Infantry)) = <<Conscript, TeslaTrooper>>)

\* the example of the claim, loaded
C4_Witness ==
    /\ Loaded
    /\ {f.id : f \in fs} = {1, 4}
    /\ NameList(BucketOf(SovietUnion, Russia, Infantry)) = <<Conscript, TeslaTrooper>>

\* ------------------------------------------------------------------------
\* C5
\* ------------------------------------------------------------------------
\* C5: when a record of S's own folder C and a base record of F's folder C share
\* a name, the records of that name in bucket (F, S, C) are one record, it is the
\* subfaction's own, and the base record is not in the bucket.
C5_OwnRecordSurvives ==
    Loaded =>
        \A F \in Factions : \A S \in Subfactions(F), C \in Categories :
            LET bucket == BucketOf(F, S, C)
                owns == OwnRecords(F, S, C)
            IN  \A own \in owns, base \in BaseRecords(F, C) :
                    own.name = base.name =>
                        /\ base \notin Range(bucket)
                        /\ \E i \in 1..Len(bucket) :
                            /\ bucket[i].name = own.name
                            /\ bucket[i] \in owns
                            /\ \A j \in 1..Len(bucket) : bucket[j].name = own.name => j = i

\* a loaded catalog where Russia's own Conscript and the base Conscript met
C5_Witness ==
    /\ Loaded
    /\ \E own \in OwnRecords(SovietUnion, Russia, Infantry),
          base \in BaseRecords(SovietUnion, Infantry) : own.name = base.name
    /\ \E i \in 1..Len(BucketOf(SovietUnion, Russia, Infantry)) :
          BucketOf(SovietUnion, Russia, Infantry)[i].subfaction = Russia

\* ------------------------------------------------------------------------
\* C6
\* ------------------------------------------------------------------------
\* C6: search_units with an empty query returns an empty list, whatever the
\* search index holds.
C6_EmptyQuery ==
    (ret.op = "search_units" /\ ret.query = EmptyStr) => ret.value = <<>>

\* the empty query was answered over a search index that is not empty
C6_Witness ==
    /\ ret.op = "search_units"
    /\ ret.query = EmptyStr
    /\ Len(search_index) >= 2
    /\ ret.value = <<>>

\* ------------------------------------------------------------------------
\* C7
\* ------------------------------------------------------------------------
\* the entry has the lower-cased query q in its lower-cased name, faction,
\* subfaction or category
EntryMatches(e, q) ==
    \E field \in {e.name, e.faction, e.subfaction, e.category} :
        OccursIn(Lower(q), Lower(field))

C8_IndexOrder ==
    pc = "ready" =>
        /\ \A i, j \in 1..Len(search_index) :
              i < j => StrLeq(Lower(search_index[i].name), Lower(search_index[j].name))
        /\ ret.op = "search_units" => IsSubsequence(ret.value, search_index)

\* a search returned several entries, not all, of an index whose order by
\* lower-cased name differs from its order by name
C8_Witness ==
    /\ pc = "ready"
    /\ ret.op = "search_units"
    /\ Len(ret.value) >= 2
    /\ Len(ret.value) < Len(search_index)
    /\ \E i, j \in 1..Len(ret.value) :
          i < j /\ StrLess(ret.value[j].name, ret.value[i].name)

\* ------------------------------------------------------------------------
\* C9
\* ------------------------------------------------------------------------
\* C9: after loading, for every record u of every bucket of the catalog,
\* search_units(u.name) returns an entry whose unit_data is u.
C9_EveryRecordFound ==
    Loaded =>
        \A u \in CatalogRecords :
            \E i \in 1..Len(search_units(u.name)) : search_units(u.name)[i].unit_data = u

\* ------------------------------------------------------------------------
\* C10
\* ------------------------------------------------------------------------
\* the path names a faction, a subfaction or a category that is no key
UnknownPath(faction, subfaction, category) ==
    IF faction \notin DOMAIN faction_units THEN TRUE
    ELSE IF subfaction = None THEN FALSE
    ELSE IF subfaction \notin DOMAIN faction_units[faction] THEN TRUE
    ELSE IF category = None THEN FALSE
    ELSE category \notin DOMAIN faction_units[faction][subfaction]

\* C10: get_units_for_path with an unknown faction, an unknown subfaction of a
\* known faction or an unknown category of a known subfaction returns an empty
\* list and does not raise, in every state of the catalog.
C10_UnknownPathEmpty ==
    (ret.op = "get_units_for_path" /\ UnknownPath(ret.faction, ret.subfaction, ret.category)) =>
        (~ret.result.raised /\ ret.result.value = <<>>)

\* an unknown category of a known subfaction was looked up in a catalog that
\* holds units of that subfaction
C10_Witness ==
    /\ ret.op = "get_units_for_path"
    /\ ret.faction = SovietUnion
    /\ ret.subfaction = Russia
    /\ ret.category = Support_powers
    /\ dataDirExists
    /\ BucketOf(SovietUnion, Russia, Infantry) # <<>>
    /\ ret.result = Returned(<<>>)

\* an unknown faction was looked up in the empty catalog
C10_WitnessEmptyCatalog ==
    /\ ret.op = "get_units_for_path"
    /\ ~dataDirExists
    /\ DOMAIN faction_units = {}
    /\ ret.result = Returned(<<>>)


\* ------------------------------------------------------------------------
\* C11
\* ------------------------------------------------------------------------
\* the records of all category buckets of subfaction S of faction F
RecordsOfSubfaction(F, S) ==
    UNION {Range(faction_units[F][S][C]) : C \in DOMAIN faction_units[F][S]}

\* C11: for a known path get_units_for_path agrees with the catalog. (F) returns
\* the records of all buckets of all subfactions of F, (F, S) the records of all
\* category buckets of S, each of them and no other, and (F, S, C) returns the
\* bucket (F, S, C) itself.
C11_LookupAgrees ==
    (ret.op = "get_units_for_path" /\ ~UnknownPath(ret.faction, ret.subfaction, ret.category)) =>
        /\ ~ret.result.raised
        /\ (ret.subfaction = None /\ ret.category = None) =>
              Range(ret.result.value)
                = UNION {RecordsOfSubfaction(ret.faction, S) : S \in DOMAIN faction_units[ret.faction]}
        /\ (ret.subfaction # None /\ ret.category = None) =>
              Range(ret.result.value) = RecordsOfSubfaction(ret.faction, ret.subfaction)
        /\ (ret.subfaction # None /\ ret.category # None) =>
              ret.result.value = faction_units[ret.faction][ret.subfaction][ret.category]

\* a subfaction was looked up whose records lie in two category buckets
C11_Witness ==
    /\ ret.op = "get_units_for_path"
    /\ ret.faction = SovietUnion
    /\ ret.subfaction = Russia
    /\ ret.category = None
    /\ dataDirExists
    /\ BucketOf(SovietUnion, Russia, Infantry) # <<>>
    /\ BucketOf(SovietUnion, Russia, Vehicles) # <<>>
    /\ Len(ret.result.value)
         = Len(BucketOf(SovietUnion, Russia, Infantry)) + Len(BucketOf(SovietUnion, Russia, Vehicles))


\* ------------------------------------------------------------------------
\* C12
\* ------------------------------------------------------------------------
\* unit files under the spellings of the directories of Soviet Union, of its
\* subfaction Latin Confederation and of Foehn Revolt, and under both spellings
\* of the category folder of Support powers
DirFileUniverse ==
    { File(11, <<SovietUnion, Infantry>>, Stem_a, JsonObject(Conscript)),
      File(12, <<Soviet_Union, Infantry>>, Stem_a, JsonObject(boris)),
      File(13, <<SovietUnionNoSpace, Infantry>>, Stem_a, JsonObject(TeslaTrooper)),
      File(14, <<SovietUnion, SubfactionSegment, LatinConfederation, Infantry>>, Stem_b, JsonNoName),
      File(15, <<SovietUnion, SubfactionSegment, Latin_Confederation, Infantry>>, Stem_c, JsonNoName),
      File(16, <<SovietUnion, SubfactionSegment, LatinConfederationNoSpace, Infantry>>, boris, JsonNoName),
      File(17, <<SovietUnion, SubfactionSegment, Latin, Infantry>>, TeslaTrooper, JsonNoName),
      File(18, <<Soviet_Union, SubfactionSegment, Latin, Infantry>>, Stem_b, JsonNoName),
      File(19, <<FoehnRevoltNoSpace, Infantry>>, Stem_a, JsonObject(Conscript)),
      File(20, <<SovietUnion, SupportPowers>>, Stem_a, JsonObject(Conscript)),
      File(21, <<SovietUnion, Support_powers>>, Stem_b, JsonObject(boris)) }

InitDirs == InitOver(DirFileUniverse, {{}})

\* the loader over data directories that spell their directories in several ways
SpecDirs == InitDirs /\ [][Next]_vars

\* the first of the directories cands that exists, in the order of the claim
FirstOf(cands) ==
    IF \E i \in 1..Len(cands) : cands[i] \in dirs
    THEN cands[CHOOSE i \in 1..Len(cands) :
                  cands[i] \in dirs /\ \A j \in 1..(i - 1) : cands[j] \notin dirs]
    ELSE NoDir

\* the name with every space replaced by an underscore, and with every space removed
Underscored(name) == [i \in 1..Len(name) |-> IF name[i] = Space THEN Underscore ELSE name[i]]
Unspaced(name) == SelectSeq(name, LAMBDA c : c # Space)
\* the part of the name before its first space
UpToSpace(name) ==
    IF Space \in Range(name)
    THEN SubSeq(name, 1, (CHOOSE i \in 1..Len(name) :
                             name[i] = Space /\ \A j \in 1..(i - 1) : name[j] # Space) - 1)
    ELSE name

\* the directories the claim resolves a faction and a subfaction to
ClaimedFactionDir(F) == FirstOf(<< <<F>>, <<Underscored(F)>>, <<Unspaced(F)>> >>)
ClaimedSubfactionDir(F, S) ==
    LET parent == ClaimedFactionDir(F) \o <<SubfactionSegment>>
    IN  IF ClaimedFactionDir(F) = NoDir THEN NoDir
        ELSE FirstOf(<< parent \o <<S>>, parent \o <<Underscored(S)>>,
                        parent \o <<Unspaced(S)>>, parent \o <<UpToSpace(S)>> >>)

\* C12: a faction is loaded from the first existing of its exact name, its name
\* with underscores for spaces and its name without spaces; a subfaction from the
\* first existing, under subfaction/, of these three and of the first token of
\* its name. Every bucket holds records of these two directories only and every
\* name found in them; a faction with no directory keeps all its buckets empty
\* while the other factions are loaded.
C12_Resolution ==
    Loaded =>
        \A F \in Factions : \A S \in Subfactions(F), C \in Categories :
            LET bucket == Range(BucketOf(F, S, C))
                folders == RecordsOfFolder(ClaimedSubfactionDir(F, S), F, S, C)
                             \cup RecordsOfFolder(ClaimedFactionDir(F), F, temp_subfaction, C)
            IN  /\ bucket \subseteq folders
                /\ NamesOf(bucket) = NamesOf(folders)
                /\ ClaimedFactionDir(F) = NoDir => bucket = {}

\* Soviet Union exists under two spellings and is loaded from the exact one, its
\* subfaction Latin Confederation is loaded from the directory Latin, and Allied
\* Nations, the faction before it, has no directory
C12_Witness ==
    /\ Loaded
    /\ {f.id : f \in fs} = {11, 12, 17}
    /\ {u.file : u \in Range(BucketOf(SovietUnion, LatinConfederation, Infantry))} = {11, 17}
    /\ {u.file : u \in Range(BucketOf(SovietUnion, Russia, Infantry))} = {11}
    /\ BucketOf(AlliedNations, UnitedStates, Infantry) = <<>>


\* ------------------------------------------------------------------------
\* C13
\* ------------------------------------------------------------------------
\* well-formed unit files next to files that are no JSON and files whose JSON
\* is no object, in a base folder, a subfaction folder and a later faction
BadFileUniverse ==
    { File(31, <<SovietUnion, Infantry>>, Stem_a, JsonObject(Conscript)),
      File(32, <<SovietUnion, Infantry>>, Stem_b, JsonInvalid),
      File(33, <<SovietUnion, Infantry>>, Stem_c, JsonArray),
      File(34, <<SovietUnion, Vehicles>>, Stem_a, JsonObject(boris)),
      File(35, RussiaDir \o <<Infantry>>, TeslaTrooper, JsonNoName),
      File(36, RussiaDir \o <<Infantry>>, Stem_b, JsonInvalid),
      File(37, <<FoehnRevolt, Infantry>>, Stem_a, JsonObject(Conscript)) }

InitBad == InitOver(BadFileUniverse, {{}})

\* the loader over data directories that hold malformed unit files
SpecBad == InitBad /\ [][Next]_vars

WellFormed == {f.id : f \in {g \in fs : g.json.kind = "object"}}

\* C13: a unit file that is no JSON or no JSON object is skipped and the load
\* goes on. The loader is never stuck before the catalog is ready; once it is, no
\* record of the catalog, of self.units or of the search index comes from such a
\* file, every bucket holds the names of all well-formed files of its subfaction
\* folder and base folder, and the search index holds an entry for every unit of
\* self.units.
C13_BadFileSkipped ==
    /\ pc # "ready" => ENABLED Next
    /\ Loaded =>
        /\ \A u \in CatalogRecords \cup {units[i].unit : i \in 1..Len(units)} : u.file \in WellFormed
        /\ \A F \in Factions : \A S \in Subfactions(F), C \in Categories :
              NamesOf(Range(BucketOf(F, S, C)))
                = NamesOf(OwnRecords(F, S, C)) \cup NamesOf(BaseRecords(F, C))
        /\ {search_index[i].unit_data : i \in 1..Len(search_index)}
              = {units[i].unit : i \in 1..Len(units)}

\* a folder with a file that is no JSON, a file that is no object and a
\* well-formed file was loaded, and the well-formed one is in the catalog and in
\* the index
C13_Witness ==
    /\ Loaded
    /\ {f.id : f \in fs} = {31, 32, 33}
    /\ NameList(BucketOf(SovietUnion, China, Infantry)) = <<Conscript>>
    /\ Len(search_index) = 1


\* ------------------------------------------------------------------------
\* C14
\* ------------------------------------------------------------------------
\* C14: when the data directory is missing, construction ends with an empty
\* catalog, an empty self.units and an empty search index, and afterwards every
\* search_units call and every get_units_for_path call, also for a declared
\* faction, returns an empty list.
C14_MissingDataDir ==
    ~dataDirExists =>
        /\ pc \in {"start", "ready"}
        /\ DOMAIN faction_units = {}
        /\ units = <<>>
        /\ search_index = <<>>
        /\ ret.op = "search_units" => ret.value = <<>>
        /\ ret.op = "get_units_for_path" => ret.result = Returned(<<>>)

\* without data directory, a declared faction was looked up
C14_Witness ==
    /\ ~dataDirExists
    /\ pc = "ready"
    /\ ret.op = "get_units_for_path"
    /\ ret.faction = SovietUnion
    /\ ret.subfaction = None
    /\ ret.result = Returned(<<>>)


\* ------------------------------------------------------------------------
\* The settings file: the program started without a data directory, over the
\* settings files of SettingsFiles
\* ------------------------------------------------------------------------
Black == Str("#000000")
OpacityPair == List(<<Str("opacity"), Num(50)>>)

SettingsFiles ==
    { NoFile, InvalidFile,
      JsonFile(Num(5)), JsonFile(Null), JsonFile(List(<<>>)),
      JsonFile(Obj(EmptyDict)),
      JsonFile(Obj([theme |-> Num(5)])),
      JsonFile(Obj([theme |-> Str("")])),
      JsonFile(Obj([custom |-> Null])),
      JsonFile(Obj([theme |-> Obj([bg |-> Black]), custom |-> Num(5)])),
      JsonFile(Obj([theme |-> Num(5), custom |-> Obj([opacity |-> Num(50)])])),
      JsonFile(Obj([custom |-> List(<<OpacityPair>>)])),
      JsonFile(Obj([custom |-> List(<<OpacityPair, Num(1)>>)])),
      JsonFile(Obj([theme |-> Obj([bg |-> Black, glow |-> Black]),
                    custom |-> Obj([opacity |-> Num(50), ui_scale |-> Num(200)])])) }

InitSettings ==
    /\ dataDirExists = FALSE
    /\ fs = {}
    /\ dirs = {}
    /\ pc = "off"
    /\ fi = 1
    /\ si = 1
    /\ faction_dir = <<>>
    /\ base_faction_units = NoBase
    /\ units = <<>>
    /\ faction_units = EmptyDict
    /\ search_index = <<>>
    /\ ret = NoCall
    /\ settings_file \in SettingsFiles
    /\ current_theme = DEFAULT_THEME
    /\ custom_settings = DefaultCustomSettings
    /\ DEFAULT_WINDOW_SIZE = InitialWindowSize
    /\ geometry = NoGeometry
    /\ view = "none"
    /\ current_faction = None
    /\ comparison_units = <<>>
    /\ is_collapsed = FALSE
    /\ expanded_size = NoSize
    /\ shown_faction = None
    /\ highlighted = None
    /\ notifications = {}
    /\ timers = <<>>

NextSettings ==
    \/ Launch
    \/ LoadDataMissing
    \/ AppStart
    \/ ShowFactions
    \/ ShowSettings
    \/ ApplyWindowSize
    \/ SaveSettings
    \/ ResetSettings
    \/ OnClose

SpecSettings == InitSettings /\ [][NextSettings]_vars

\* ------------------------------------------------------------------------
\* C15: when the settings file is absent or malformed (not valid JSON, not a
\* JSON object, or with a theme or custom section that is not a mapping), the
\* theme and the custom settings hold exactly their defaults after
\* load_settings, no part of the file being applied
\* ------------------------------------------------------------------------
NotMapping(settings, key) == key \in DOMAIN settings.obj /\ settings.obj[key].t # "obj"

Malformed(file) ==
    \/ file.kind # "json"
    \/ file.doc.t # "obj"
    \/ NotMapping(file.doc, "theme")
    \/ NotMapping(file.doc, "custom")

C15_DefaultsOnMalformed ==
    (ret.op = "ThemeManager" /\ Malformed(settings_file)) =>
        /\ current_theme = DEFAULT_THEME
        /\ custom_settings = DefaultCustomSettings

C18_SpaceFolderLoaded ==
    Loaded =>
        \A F \in Factions : \A f \in fs :
            ( /\ FactionDirOf(F) # NoDir
              /\ f.json.kind = "object"
              /\ f.dir \in {FactionDirOf(F) \o <<SupportPowers>>,
                            FactionDirOf(F) \o <<Support_powers>>} )
            => \E u \in CatalogRecords : u.file = f.id


\* ------------------------------------------------------------------------
\* The main window: navigation, comparison list, collapsing
\* ------------------------------------------------------------------------
\* the records a unit button, a search result or the details view hands to a handler
AllUnits == CatalogRecords \cup {units[i].unit : i \in 1..Len(units)}

\* list.remove(x): the list without the first element equal to x
RECURSIVE RemoveFirst(_, _)
RemoveFirst(list, x) ==
    IF list = <<>> THEN <<>>
    ELSE IF Head(list) = x THEN Tail(list)
    ELSE <<Head(list)>> \o RemoveFirst(Tail(list), x)

\* toggle_comparison without the membership test
toggle_comparison_AlwaysAppend(list, unit) == Append(list, unit)

\* toggle_comparison(unit): the comparison list after it
toggle_comparison(list, unit) ==
    IF unit \in Range(list) THEN RemoveFirst(list, unit) ELSE Append(list, unit)

\* the factions whose title bar button is pressed
SelectFactions == {SovietUnion}

\* select_faction(faction): show_faction_units reads the buckets through
\* get_units_for_path and builds its own lists from them
SelectFaction ==
    /\ view # "none"
    /\ ~is_collapsed
    /\ \E faction \in SelectFactions :
        /\ \A S \in Subfactions(faction), C \in Categories :
              ~get_units_for_path(faction, S, C).raised
        /\ current_faction' = faction
        /\ highlighted' = faction
        /\ shown_faction' = faction
    /\ view' = "faction_units"
    /\ UNCHANGED <<datavars, notevars, colvars, ret, settings_file, current_theme, custom_settings,
                   DEFAULT_WINDOW_SIZE, geometry, comparison_units>>

\* show_faction_units extending the list get_units_for_path handed out
ShowFactionUnits_ExtendsBucket ==
    /\ view \in {"faction_units", "unit_details"}
    /\ ~is_collapsed
    /\ \E faction \in SelectFactions :
        /\ faction \in DOMAIN faction_units
        /\ faction_units' =
              [faction_units EXCEPT ![faction] =
                  [S \in DOMAIN faction_units[faction] |->
                      [faction_units[faction][S] EXCEPT ![Infantry] =
                          @ \o faction_units[faction][S][Vehicles]]]]
    /\ view' = "faction_units"
    /\ UNCHANGED <<fsvars, pc, fi, si, faction_dir, base_faction_units, units, search_index,
                   notevars, navvars, colvars, ret, settings_file, current_theme,
                   custom_settings, DEFAULT_WINDOW_SIZE, geometry, comparison_units,
                   current_faction>>

\* show_faction_units(faction, category) from a category button or the "All"
\* button, for the faction of the view, or from the Back button of the details
\* view, for the faction of its unit
ShowFactionUnits ==
    /\ view \in {"faction_units", "unit_details"}
    /\ ~is_collapsed
    /\ \A S \in Subfactions(shown_faction), C \in Categories :
            ~get_units_for_path(shown_faction, S, C).raised
    /\ view' = "faction_units"
    /\ UNCHANGED <<datavars, notevars, navvars, colvars, ret, settings_file, current_theme, custom_settings,
                   DEFAULT_WINDOW_SIZE, geometry, comparison_units, current_faction>>

\* the units whose button, in the faction units view, or whose search result
\* can be clicked
ClickableUnits ==
    IF view = "faction_units"
    THEN Range(get_units_for_path(shown_faction, None, None).value)
    ELSE {search_index[i].unit_data : i \in 1..Len(search_index)}

\* show_unit_details(unit): a left click on a unit button or a search result
ShowUnitDetails ==
    /\ view \in {"faction_units", "search"}
    /\ ~is_collapsed
    /\ \E unit \in ClickableUnits : shown_faction' = unit.faction
    /\ view' = "unit_details"
    /\ UNCHANGED <<datavars, notevars, highlighted, colvars, ret, settings_file, current_theme, custom_settings,
                   DEFAULT_WINDOW_SIZE, geometry, comparison_units, current_faction>>

\* show_search(): the title bar button or Control-f
ShowSearch ==
    /\ view # "none"
    /\ view' = "search"
    /\ shown_faction' = None
    /\ UNCHANGED <<datavars, notevars, highlighted, colvars, ret, settings_file, current_theme, custom_settings,
                   DEFAULT_WINDOW_SIZE, geometry, comparison_units, current_faction>>

\* on_search(event): a key released in the search entry
OnSearch ==
    /\ view = "search"
    /\ ~is_collapsed
    /\ \E query \in Queries : Len(search_units(query)) <= Len(search_index)
    /\ UNCHANGED vars

\* the most notification labels on the window at once
MaxPending == 2

\* a label not on the window and not held by a callback
NewLabel(labels, callbacks) ==
    CHOOSE id \in 1..(Cardinality(labels) + Len(callbacks) + 1) :
        id \notin labels \cup Range(callbacks)

\* root.after(2000, callback) dropping the callbacks scheduled before
after_ReplacesPrevious(callbacks, id) == <<id>>

\* root.after(2000, callback): the callbacks held by the event loop, the new one
\* due after those scheduled before it
after(callbacks, id) == Append(callbacks, id)

\* toggle_comparison_and_refresh(unit): a right click on a unit button, the button
\* of the details view or of a search result, while fewer than limit
\* notifications are on the window
ToggleComparisonOver(limit) ==
    /\ view \in {"faction_units", "unit_details", "search"}
    /\ ~is_collapsed
    /\ Cardinality(notifications) < limit
    /\ \E unit \in AllUnits :
        comparison_units' = toggle_comparison(comparison_units, unit)
    /\ LET notification == NewLabel(notifications, timers)
       IN  /\ notifications' = notifications \cup {notification}
           /\ timers' = after(timers, notification)
    /\ UNCHANGED <<datavars, navvars, colvars, ret, settings_file, current_theme, custom_settings,
                   DEFAULT_WINDOW_SIZE, geometry, view, current_faction>>

ToggleComparison == ToggleComparisonOver(MaxPending)

\* a toggle once the notification of the one before is gone
ToggleComparisonAlone == ToggleComparisonOver(1)

\* the callback of line 1981, two seconds after its toggle: the notification is
\* destroyed if it still exists
TimerFires ==
    /\ timers # <<>>
    /\ notifications' = notifications \ {Head(timers)}
    /\ timers' = Tail(timers)
    /\ UNCHANGED <<datavars, navvars, colvars, ret, settings_file, current_theme, custom_settings,
                   DEFAULT_WINDOW_SIZE, geometry, view, current_faction, comparison_units>>

\* show_comparison(): the title bar button
ShowComparison ==
    /\ view # "none"
    /\ ~is_collapsed
    /\ geometry' = ShowComparisonGeometry(comparison_units, DEFAULT_WINDOW_SIZE, geometry)
    /\ view' = "comparison"
    /\ shown_faction' = None
    /\ UNCHANGED <<datavars, notevars, highlighted, colvars, ret, settings_file, current_theme, custom_settings,
                   DEFAULT_WINDOW_SIZE, comparison_units, current_faction>>

\* clear_comparison(): the button of the comparison view
ClearComparison ==
    /\ view = "comparison"
    /\ ~is_collapsed
    /\ comparison_units # <<>>
    /\ comparison_units' = <<>>
    /\ geometry' = ShowComparisonGeometry(<<>>, DEFAULT_WINDOW_SIZE,
                      [by |-> "clear_comparison",
                       size |-> ScaledDefault(custom_settings, DEFAULT_WINDOW_SIZE)])
    /\ UNCHANGED <<datavars, notevars, navvars, colvars, ret, settings_file, current_theme, custom_settings,
                   DEFAULT_WINDOW_SIZE, view, current_faction>>

\* the geometry remove_from_comparison requests itself, before show_comparison()
RemoveGeometry(list, custom, dws) ==
    [by |-> "remove_from_comparison",
     size |-> IF Len(list) = 0 THEN ScaledDefault(custom, dws)
              ELSE <<ScaleInt(ComparisonWidth(Len(list)), UiScale(custom)),
                     ScaleInt(dws[2], UiScale(custom))>>]

\* remove_from_comparison(unit): a Remove button of the comparison view
RemoveFromComparison ==
    /\ view = "comparison"
    /\ ~is_collapsed
    /\ \E unit \in Range(comparison_units) :
        LET list == IF unit \in Range(comparison_units)
                    THEN RemoveFirst(comparison_units, unit)
                    ELSE comparison_units
        IN  /\ comparison_units' = list
            /\ geometry' = ShowComparisonGeometry(list, DEFAULT_WINDOW_SIZE,
                              RemoveGeometry(list, custom_settings, DEFAULT_WINDOW_SIZE))
    /\ UNCHANGED <<datavars, notevars, navvars, colvars, ret, settings_file, current_theme, custom_settings,
                   DEFAULT_WINDOW_SIZE, view, current_faction>>

\* the size of the collapsed window
CollapsedSize == <<200, 30>>

\* toggle_collapse() and on_collapse(True): the size of the window, taken to be
\* the size last requested, is kept the first time, and the window shrinks
Collapse ==
    /\ view # "none"
    /\ ~is_collapsed
    /\ is_collapsed' = TRUE
    /\ expanded_size' = IF expanded_size = NoSize THEN geometry.size ELSE expanded_size
    /\ geometry' = [by |-> "on_collapse", size |-> CollapsedSize]
    /\ UNCHANGED <<datavars, notevars, navvars, ret, settings_file, current_theme, custom_settings,
                   DEFAULT_WINDOW_SIZE, view, current_faction, comparison_units>>

\* on_collapse(False): the expand button of the collapsed window
Expand ==
    /\ is_collapsed
    /\ is_collapsed' = FALSE
    /\ geometry' = [by |-> "on_collapse",
                    size |-> IF expanded_size # NoSize THEN expanded_size
                             ELSE DEFAULT_WINDOW_SIZE]
    /\ UNCHANGED <<datavars, notevars, navvars, ret, settings_file, current_theme, custom_settings,
                   DEFAULT_WINDOW_SIZE, view, current_faction, comparison_units,
                   expanded_size>>

\* the unit files of the data directory the window is opened over
WindowFiles ==
    { File(41, <<SovietUnion, Infantry>>, Stem_a, JsonObject(Conscript)),
      File(42, <<SovietUnion, Vehicles>>, Stem_a, JsonObject(boris)),
      File(43, RussiaDir \o <<Infantry>>, Stem_a, JsonObject(TeslaTrooper)) }

InitWindow ==
    /\ dataDirExists = TRUE
    /\ fs = WindowFiles
    /\ dirs = DirsOf(fs, {})
    /\ pc = "off"
    /\ fi = 1
    /\ si = 1
    /\ faction_dir = <<>>
    /\ base_faction_units = NoBase
    /\ units = <<>>
    /\ faction_units = EmptyDict
    /\ search_index = <<>>
    /\ ret = NoCall
    /\ settings_file = NoFile
    /\ current_theme = DEFAULT_THEME
    /\ custom_settings = DefaultCustomSettings
    /\ DEFAULT_WINDOW_SIZE = InitialWindowSize
    /\ geometry = NoGeometry
    /\ view = "none"
    /\ current_faction = None
    /\ comparison_units = <<>>
    /\ is_collapsed = FALSE
    /\ expanded_size = NoSize
    /\ shown_faction = None
    /\ highlighted = None
    /\ notifications = {}
    /\ timers = <<>>

\* the settings view left at the values the program starts with
PlainOpacity == {90}
PlainUiScale == {100}
PlainWidth == {1000}
PlainHeight == {700}
SaveSettingsPlain == SaveSettingsOver(PlainOpacity, PlainUiScale, PlainWidth, PlainHeight)
ApplyWindowSizePlain == ApplyWindowSizeOver(PlainWidth, PlainHeight)

NextWindow ==
    \/ Launch
    \/ LoadData
    \/ SkipFaction
    \/ LoadBaseUnits
    \/ LoadSubfaction
    \/ BuildSearchIndex
    \/ AppStart
    \/ ShowFactions
    \/ SelectFaction
    \/ ShowFactionUnits
    \/ ShowUnitDetails
    \/ ShowSearch
    \/ OnSearch
    \/ ToggleComparisonAlone
    \/ TimerFires
    \/ ShowComparison
    \/ ClearComparison
    \/ RemoveFromComparison
    \/ ShowSettings
    \/ ApplyWindowSizePlain
    \/ SaveSettingsPlain
    \/ ResetSettings
    \/ Collapse
    \/ Expand
    \/ OnClose

SpecWindow == InitWindow /\ [][NextWindow]_vars


\* ------------------------------------------------------------------------
\* C17: once the DataManager is constructed, no step of the running program
\* (lookup, search, faction selection, unit details, toggling, removing,
\* clearing, saving or resetting settings, collapsing) changes self.units, a
\* bucket of the catalog or the search index
\* ------------------------------------------------------------------------
C17_CatalogFrozen ==
    [][(pc = "ready" /\ pc' = "ready") =>
          /\ units' = units
          /\ faction_units' = faction_units
          /\ search_index' = search_index]_vars

\* a loaded catalog after the window was collapsed and expanded, the comparison
\* cleared, the settings saved, a faction shown and a unit toggled
C17_Witness ==
    /\ pc = "ready"
    /\ Len(search_index) = 3
    /\ view = "faction_units"
    /\ Len(comparison_units) = 1
    /\ geometry.by = "clear_comparison"
    /\ ret.op = "save_settings"
    /\ expanded_size # NoSize

\* ------------------------------------------------------------------------
\* C19: the comparison list never holds a unit twice; toggle_comparison removes
\* a unit that is in the list and appends one that is not, and toggling a unit
\* twice in a row gives back the set of selected units
\* ------------------------------------------------------------------------
C19_ToggleKeepsUnique ==
    LET L == comparison_units
    IN  /\ \A i, j \in 1..Len(L) : L[i] = L[j] => i = j
        /\ \A unit \in AllUnits :
              LET T == toggle_comparison(L, unit)
              IN  /\ unit \in Range(L) => Range(T) = Range(L) \ {unit}
                  /\ unit \notin Range(L) => T = Append(L, unit)
                  /\ Range(toggle_comparison(T, unit)) = Range(L)

\* two units selected, the later file first, after a comparison was cleared
C19_Witness ==
    /\ Len(comparison_units) = 2
    /\ comparison_units[1].file > comparison_units[2].file
    /\ geometry.by = "clear_comparison"


\* ------------------------------------------------------------------------
\* The comparison view over a catalog of six units, the user interface scale
\* being the default or the one a settings file holds
\* ------------------------------------------------------------------------
ChinaDir == <<SovietUnion, SubfactionSegment, China>>

WideFiles ==
    { File(51, <<SovietUnion, Infantry>>, Stem_a, JsonObject(Conscript)),
      File(52, <<SovietUnion, Vehicles>>, Stem_a, JsonObject(boris)),
      File(53, RussiaDir \o <<Infantry>>, Stem_a, JsonObject(TeslaTrooper)),
      File(54, RussiaDir \o <<Vehicles>>, Stem_a, JsonObject(TeslaTrooper)),
      File(55, ChinaDir \o <<Infantry>>, Stem_a, JsonObject(TeslaTrooper)),
      File(56, ChinaDir \o <<Vehicles>>, Stem_a, JsonObject(TeslaTrooper)) }

\* a settings file that sets the user interface scale to 1.5
ScaleFile == JsonFile(Obj([custom |-> Obj([ui_scale |-> Num(150)])]))

InitWide ==
    /\ dataDirExists = TRUE
    /\ fs = WideFiles
    /\ dirs = DirsOf(fs, {})
    /\ pc = "off"
    /\ fi = 1
    /\ si = 1
    /\ faction_dir = <<>>
    /\ base_faction_units = NoBase
    /\ units = <<>>
    /\ faction_units = EmptyDict
    /\ search_index = <<>>
    /\ ret = NoCall
    /\ settings_file \in {NoFile, ScaleFile}
    /\ current_theme = DEFAULT_THEME
    /\ custom_settings = DefaultCustomSettings
    /\ DEFAULT_WINDOW_SIZE = InitialWindowSize
    /\ geometry = NoGeometry
    /\ view = "none"
    /\ current_faction = None
    /\ comparison_units = <<>>
    /\ is_collapsed = FALSE
    /\ expanded_size = NoSize
    /\ shown_faction = None
    /\ highlighted = None
    /\ notifications = {}
    /\ timers = <<>>

NextWide ==
    \/ Launch
    \/ LoadData
    \/ SkipFaction
    \/ LoadBaseUnits
    \/ LoadSubfaction
    \/ BuildSearchIndex
    \/ AppStart
    \/ SelectFaction
    \/ ToggleComparisonAlone
    \/ TimerFires
    \/ ShowComparison
    \/ ClearComparison
    \/ RemoveFromComparison

SpecWide == InitWide /\ [][NextWide]_vars


\* ------------------------------------------------------------------------
\* C20: while the comparison view shows n >= 1 units, the width last requested
\* is min(2000, max(1000, 400 + 300 * n)), which lies between 1000 and 2000 and
\* is no smaller than the width for any smaller n; and while it shows the empty
\* list that remove_from_comparison or clear_comparison left, the size last
\* requested is DEFAULT_WINDOW_SIZE with each side multiplied by ui_scale and
\* truncated
\* ------------------------------------------------------------------------
C20_ComparisonWidth ==
    LET n == Len(comparison_units)
        scale == custom_settings["ui_scale"].num
    IN  /\ (view = "comparison" /\ n >= 1) =>
              /\ geometry.by = "show_comparison"
              /\ geometry.size[1] = Min2(2000, Max2(1000, 400 + 300 * n))
              /\ geometry.size[1] >= 1000
              /\ geometry.size[1] <= 2000
              /\ \A k \in 1..(n - 1) :
                    Min2(2000, Max2(1000, 400 + 300 * k)) <= geometry.size[1]
        /\ (view = "comparison" /\ n = 0
              /\ geometry.by \in {"remove_from_comparison", "clear_comparison"}) =>
              geometry.size = <<(DEFAULT_WINDOW_SIZE[1] * scale) \div 100,
                                (DEFAULT_WINDOW_SIZE[2] * scale) \div 100>>

\* six units compared at a user interface scale of 1.5: the width is at its limit
C20_Witness ==
    /\ view = "comparison"
    /\ Len(comparison_units) = 6
    /\ geometry = [by |-> "show_comparison", size |-> <<2000, 700>>]
    /\ custom_settings["ui_scale"] = Num(150)


\* ------------------------------------------------------------------------
\* C21: every collapse keeps the size the window has at that moment, the kept
\* size is not touched while the window is collapsed, and every expand requests
\* the kept size: the window comes back at the size it had immediately before
\* the most recent collapse
\* ------------------------------------------------------------------------
C21_ExpandRestores ==
    [][/\ (~is_collapsed /\ is_collapsed') => expanded_size' = geometry.size
       /\ (is_collapsed /\ is_collapsed') => expanded_size' = expanded_size
       /\ (is_collapsed /\ ~is_collapsed' /\ view' # "none") =>
             geometry'.size = expanded_size]_vars


\* ------------------------------------------------------------------------
\* The notifications of toggle_comparison_and_refresh under a running event
\* loop: root.mainloop() calls every callback of root.after() once it is due
\* ------------------------------------------------------------------------
NextNotify ==
    \/ Launch
    \/ LoadData
    \/ SkipFaction
    \/ LoadBaseUnits
    \/ LoadSubfaction
    \/ BuildSearchIndex
    \/ AppStart
    \/ SelectFaction
    \/ ShowFactions
    \/ ToggleComparison
    \/ TimerFires
    \/ OnClose

SpecNotify == InitWindow /\ [][NextNotify]_vars /\ WF_vars(TimerFires)

\* C22: every notification put on the window by toggle_comparison_and_refresh
\* is eventually removed while the event loop runs, also when further toggles
\* happen before its delay expires.
C22_NotificationRemoved ==
    \A id \in 1..MaxPending : (id \in notifications) ~> (id \notin notifications)

\* a second toggle happened before the delay of the first one expired
C22_Witness ==
    /\ Cardinality(notifications) = 2
    /\ Len(timers) = 2
    /\ Len(comparison_units) = 2


\* ------------------------------------------------------------------------
\* show_faction_units(faction): what the unfiltered faction view displays
\* ------------------------------------------------------------------------

\* any(u.name == unit.name for u in other_units) for every other subfaction
is_base(faction, subfaction_name, category, unit) ==
    \A other_subfaction \in Subfactions(faction) \ {subfaction_name} :
        unit.name \in
            {u.name : u \in Range(get_units_for_path(faction, other_subfaction, category).value)}

\* base_units of a category of the "General structure" section
base_units(faction, category) ==
    LET subs == SubfactionOrder(faction)
    IN  WithoutRepeats(ConcatAll(
            [i \in 1..Len(subs) |->
                SelectSeq(get_units_for_path(faction, subs[i], category).value,
                          LAMBDA unit : is_base(faction, subs[i], category, unit))]))

\* the unit buttons of a category of the "General structure" section
GeneralSection(faction, category) == SortedByName(base_units(faction, category))

\* how often the list holds x
RECURSIVE CountOf(_, _)
CountOf(list, x) ==
    IF list = <<>> THEN 0
    ELSE (IF Head(list) = x THEN 1 ELSE 0) + CountOf(Tail(list), x)

\* len(category_units[unit_name]): one entry for every record of that name in
\* the category, over the subfactions
NameEntries(faction, category, unit_name) ==
    LET subs == SubfactionOrder(faction)
        all == ConcatAll([i \in 1..Len(subs) |->
                            get_units_for_path(faction, subs[i], category).value])
    IN  CountOf([i \in 1..Len(all) |-> all[i].name], unit_name)

\* base_unit_names of the subfaction sections
base_unit_names(faction) ==
    { u.name : u \in { r \in CatalogRecords :
        /\ r.faction = faction
        /\ \E category \in Categories :
              NameEntries(faction, category, r.name) = Len(SubfactionOrder(faction)) } }

\* the unit buttons of the section of a subfaction
SubfactionSection(faction, subfaction_name) ==
    LET subfaction_units ==
            ConcatAll([i \in 1..Len(UNIT_CATEGORIES) |->
                get_units_for_path(faction, subfaction_name, UNIT_CATEGORIES[i]).value])
    IN  SortedByName(SelectSeq(subfaction_units,
                               LAMBDA u : u.name \notin base_unit_names(faction)))

\* the unit buttons of the whole "General structure" section
GeneralButtons(faction) ==
    ConcatAll([i \in 1..Len(UNIT_CATEGORIES) |-> GeneralSection(faction, UNIT_CATEGORIES[i])])

\* the unit files the faction view is looked at over
ViewFileUniverse ==
    { File(61, <<SovietUnion, Infantry>>, Stem_a, JsonObject(Conscript)),
      File(62, RussiaDir \o <<Vehicles>>, Stem_a, JsonObject(Conscript)),
      File(63, RussiaDir \o <<Infantry>>, Stem_b, JsonObject(Conscript)),
      File(64, RussiaDir \o <<Infantry>>, TeslaTrooper, JsonNoName),
      File(65, <<SovietUnion, Vehicles>>, Stem_c, JsonObject(boris)) }

InitView == InitOver(ViewFileUniverse, {{}})

SpecView == InitView /\ [][Next]_vars

\* C23: the unfiltered faction view shows every record of every bucket of the
\* faction exactly once, in the "General structure" section or in the section
\* of its subfaction, and the General section shows no unit name of a category
\* twice.
C23_ViewPartitions ==
    Loaded =>
        \A faction \in Factions :
            /\ \A S \in Subfactions(faction), C \in Categories :
                \A unit \in Range(get_units_for_path(faction, S, C).value) :
                    CountOf(GeneralButtons(faction), unit)
                        + CountOf(SubfactionSection(faction, S), unit) = 1
            /\ \A C \in Categories :
                \A i, j \in 1..Len(GeneralSection(faction, C)) :
                    GeneralSection(faction, C)[i].name = GeneralSection(faction, C)[j].name
                        => i = j


\* C24: after reset_settings the settings are the defaults, with the window
\* width and height the original 1000 x 700 also when apply_window_size was
\* used before, and these values are the ones in the settings file.
C24_ResetToDefaults ==
    ret.op = "reset_settings" =>
        /\ custom_settings =
              Merge(DefaultCustomSettings,
                    [window_width |-> IntNum(InitialWindowSize[1]),
                     window_height |-> IntNum(InitialWindowSize[2])])
        /\ settings_file = SettingsDocument(current_theme, custom_settings)


\* ------------------------------------------------------------------------
\* C25: the faction-level lookup concatenates the buckets without removing
\* repeats: its length is the sum of the lengths of the faction's buckets and
\* it lists a record as many times as buckets hold it; the subfaction-level
\* lookup lists no record twice.
\* ------------------------------------------------------------------------
RECURSIVE SumSeq(_)
SumSeq(s) == IF s = <<>> THEN 0 ELSE Head(s) + SumSeq(Tail(s))

\* the lengths of the buckets of a faction of the catalog
BucketLengths(F) ==
    IF F \notin DOMAIN faction_units THEN <<>>
    ELSE LET subs == SubfactionOrder(F)
             n == Len(UNIT_CATEGORIES)
         IN  [i \in 1..(Len(subs) * n) |->
                Len(faction_units[F][subs[((i - 1) \div n) + 1]][UNIT_CATEGORIES[((i - 1) % n) + 1]])]

\* the buckets of a faction of the catalog that hold the record
BucketsHolding(F, unit) ==
    IF F \notin DOMAIN faction_units THEN {}
    ELSE { p \in Subfactions(F) \X Categories : unit \in Range(faction_units[F][p[1]][p[2]]) }

C25_LookupKeepsRepeats ==
    (Loaded /\ ret.op = "get_units_for_path" /\ ~ret.result.raised) =>
        /\ ret.subfaction = None =>
              /\ Len(ret.result.value) = SumSeq(BucketLengths(ret.faction))
              /\ \A unit \in CatalogRecords :
                    CountOf(ret.result.value, unit)
                        = Cardinality(BucketsHolding(ret.faction, unit))
        /\ (ret.subfaction # None /\ ret.category = None) =>
              \A unit \in Range(ret.result.value) : CountOf(ret.result.value, unit) = 1

\* a base record inherited by the three subfactions of its faction is listed
\* three times by the faction-level lookup
C25_Witness ==
    /\ Loaded
    /\ ret.op = "get_units_for_path"
    /\ ret.subfaction = None
    /\ \E unit \in Range(ret.result.value) :
        /\ unit.subfaction = temp_subfaction
        /\ CountOf(ret.result.value, unit) = 3
        /\ Cardinality(BucketsHolding(ret.faction, unit)) = 3


\* C26: the faction units view of a faction is on display only while
\* current_faction is that faction and its toolbar button is the highlighted
\* one.
C26_NavigationConsistent ==
    view = "faction_units" =>
        /\ current_faction = shown_faction
        /\ highlighted = shown_faction


\* C27: for every entry search_units returns, the lookup of the entry's
\* faction, subfaction and category is non-empty and holds the record the
\* entry refers to.
C27_SearchPathBrowsable ==
    (Loaded /\ ret.op = "search_units") =>
        \A i \in 1..Len(ret.value) :
            LET r == ret.value[i]
                found == get_units_for_path(r.faction, r.subfaction, r.category)
            IN  /\ ~found.raised
                /\ found.value # <<>>
                /\ r.unit_data \in Range(found.value)


\* C28: when the data directory exists, the catalog after loading has exactly
\* the declared factions, for each of them exactly its declared subfactions,
\* and for each subfaction exactly the six categories: no "_base_faction_"
\* key remains, for the factions found and for those skipped.
C28_CatalogShape ==
    Loaded =>
        /\ DOMAIN faction_units = Factions
        /\ \A F \in Factions :
            /\ DOMAIN faction_units[F] = Subfactions(F)
            /\ temp_subfaction \notin DOMAIN faction_units[F]
            /\ \A S \in Subfactions(F) : DOMAIN faction_units[F][S] = Categories

\* a loaded catalog with a faction whose base units were read and a faction
\* whose directory was not found
C28_Witness ==
    /\ Loaded
    /\ \E F \in Factions, C \in Categories :
        /\ FactionDirOf(F) # NoDir
        /\ BaseRecords(F, C) # {}
    /\ \E F \in Factions : FactionDirOf(F) = NoDir


\* C29: after loading, every record in the bucket of faction F, subfaction S
\* and category C has faction F, category C and subfaction S.
C29_FiledUnderOwnCoordinates ==
    Loaded =>
        \A F \in DOMAIN faction_units :
            \A S \in DOMAIN faction_units[F] :
                \A C \in DOMAIN faction_units[F][S] :
                    \A unit \in Range(faction_units[F][S][C]) :
                        /\ unit.faction = F
                        /\ unit.category = C
                        /\ unit.subfaction = S

====
